---- MODULE Spec2Model ----
(***************************************************************************)
(* Model of segmentation/evaluate.py: the evaluation pipeline of a BraTS   *)
(* segmentation model (thresholding, dice score, tumor extent, weighted    *)
(* slice sampling, per-partition loop and summary).                        *)
(*                                                                         *)
(* Numbers are exact rationals <<n, d>> in lowest terms (d > 0).  A numpy  *)
(* array is a record [shape, data]: data is the array in C order, which is *)
(* what np.ravel returns.  Indices are 0-based as in the source; the       *)
(* element of axis a of a shape is shape[a + 1].                           *)
(***************************************************************************)
EXTENDS Integers, Sequences, FiniteSets, TLC

VARIABLES pc, partitions, call, name, out_dir, patient_ids, idx, patient,
          pred, dice, dice_coefficients, tumor_range, coronal_slices,
          cache, writes, dirs, log, error, events, args, result

vars == <<pc, partitions, call, name, out_dir, patient_ids, idx, patient,
          pred, dice, dice_coefficients, tumor_range, coronal_slices,
          cache, writes, dirs, log, error, events, args, result>>

pipeVars == <<partitions, call, name, out_dir, patient_ids, idx, patient,
              pred, dice, dice_coefficients, tumor_range, coronal_slices,
              cache, writes, dirs, log, error, events>>

----------------------------------------------------------------------------
(* Bounds of the model.                                                    *)

\* largest number of voxels of a ground-truth volume of the pipeline
MaxVoxels == 4
\* number of patient identifiers known to the partition source
MaxPatients == 2
\* largest number of elements of a mask handed to dice_coefficient alone
MaxLen == 3
\* largest number of elements of a volume handed to to_single_class alone
MaxVox == 2

----------------------------------------------------------------------------
(* Exact rational arithmetic.                                              *)

Abs(n) == IF n < 0 THEN -n ELSE n
Min(a, b) == IF a <= b THEN a ELSE b

RECURSIVE GCD(_, _)
GCD(a, b) == IF b = 0 THEN a ELSE GCD(b, a % b)

\* the rational n/d (d # 0) in lowest terms with a positive denominator
Rat(n, d) ==
  LET g == GCD(Abs(n), Abs(d))
      s == IF d < 0 THEN -1 ELSE 1
  IN  <<(s * n) \div g, (s * d) \div g>>

Int2Rat(n) == <<n, 1>>
Add(a, b) == Rat(a[1] * b[2] + b[1] * a[2], a[2] * b[2])
Sub(a, b) == Rat(a[1] * b[2] - b[1] * a[2], a[2] * b[2])
Mul(a, b) == Rat(a[1] * b[1], a[2] * b[2])
Less(a, b) == a[1] * b[2] < b[1] * a[2]
Geq(a, b) == ~Less(a, b)

\* the floats that are no numbers, written with a zero denominator
NaN == <<0, 0>>
PosInf == <<1, 0>>
NegInf == <<-1, 0>>
IsFinite(a) == a[2] # 0

\* float division: a zero divisor gives nan or +-inf (a warning, no exception)
Div(a, b) ==
  IF b[1] # 0 THEN Rat(a[1] * b[2], a[2] * b[1])
  ELSE IF a[1] = 0 THEN NaN
  ELSE IF a[1] > 0 THEN PosInf ELSE NegInf

RECURSIVE SumSeq(_)
SumSeq(s) == IF s = <<>> THEN Int2Rat(0) ELSE Add(Head(s), SumSeq(Tail(s)))

----------------------------------------------------------------------------
(* numpy arrays.                                                           *)

RECURSIVE Prod(_)
Prod(s) == IF s = <<>> THEN 1 ELSE Head(s) * Prod(Tail(s))

Size(shape) == Prod(shape)

\* the positions of set S (of naturals) as an ascending sequence
Ascending(S) ==
  [k \in 1..Cardinality(S) |->
     CHOOSE p \in S : Cardinality({q \in S : q < p}) = k - 1]

\* product of the lengths of the axes after axis a
Stride(shape, a) == Prod(SubSeq(shape, a + 2, Len(shape)))

\* coordinate along axis a of the element at C-order position p (0-based)
Coord(shape, a, p) == (p \div Stride(shape, a)) % shape[a + 1]

\* arr[:, ..., i] with i on axis a: legal when the axis exists and i is on it
CanIndex(arr, a, i) == a < Len(arr.shape) /\ i >= 0 /\ i < arr.shape[a + 1]

\* arr[:, ..., i] with i on axis a (that axis is removed)
IndexAxis(arr, a, i) ==
  LET n    == Size(arr.shape)
      keep == Ascending({p \in 0..(n - 1) : Coord(arr.shape, a, p) = i})
  IN  [shape |-> SubSeq(arr.shape, 1, a) \o SubSeq(arr.shape, a + 2, Len(arr.shape)),
       data  |-> [k \in 1..Len(keep) |-> arr.data[keep[k] + 1]]]

\* np.sum(arr)
NpSum(arr) == SumSeq(arr.data)

\* np.expand_dims(arr, axis=0)
expand_dims(arr) == [shape |-> <<1>> \o arr.shape, data |-> arr.data]

\* width of the slab _crop removes from the leading edge of the last axis
CropWidth == 3

_crop(image) ==
  LET r    == Len(image.shape)
      n    == Size(image.shape)
      last == image.shape[r]
      left == IF last > CropWidth THEN last - CropWidth ELSE 0
      keep == Ascending({p \in 0..(n - 1) : Coord(image.shape, r - 1, p) >= CropWidth})
  IN  [shape |-> SubSeq(image.shape, 1, r - 1) \o <<left>>,
       data  |-> [k \in 1..Len(keep) |-> image.data[keep[k] + 1]]]

----------------------------------------------------------------------------
(* to_single_class (lines 40-44).                                          *)

\* the comparison written > where the source has >=
to_single_class_gt(seg, threshold) ==
  [shape |-> seg.shape,
   data  |-> [i \in 1..Len(seg.data) |->
                IF Less(threshold, seg.data[i]) THEN Int2Rat(1) ELSE Int2Rat(0)]]

to_single_class(seg, threshold) ==
  [shape |-> seg.shape,
   data  |-> [i \in 1..Len(seg.data) |->
                IF Geq(seg.data[i], threshold) THEN Int2Rat(1) ELSE Int2Rat(0)]]

----------------------------------------------------------------------------
(* dice_coefficient (lines 33-37).                                         *)

\* the default of the parameter smooth, 0.02
smooth == Rat(2, 100)

\* two 1-D arrays broadcast together when they are as long as each other or
\* one of them has exactly one element
Broadcasts(a, b) == Len(a) = Len(b) \/ Len(a) = 1 \/ Len(b) = 1

BroadcastLen(a, b) == IF Len(a) = 1 THEN Len(b) ELSE Len(a)

\* np.logical_and(a, b).sum() of two broadcastable 1-D arrays
logical_and_sum(a, b) ==
  LET at(s, i) == IF Len(s) = 1 THEN s[1] ELSE s[i]
  IN  Cardinality({i \in 1..BroadcastLen(a, b) :
                     at(a, i)[1] # 0 /\ at(b, i)[1] # 0})

\* the two masks paired element by element up to the end of the shorter one
dice_truncating(p, truth) ==
  LET n      == Min(Len(p.data), Len(truth.data))
      _pred  == SubSeq(p.data, 1, n)
      _truth == SubSeq(truth.data, 1, n)
  IN  [ok |-> TRUE,
       value |-> Div(Add(Int2Rat(2 * logical_and_sum(_pred, _truth)), smooth),
                     Add(Add(NpSum(p), NpSum(truth)), smooth))]

\* smooth left out of both terms
dice_no_smooth(p, truth) ==
  LET _pred  == p.data
      _truth == truth.data
  IN  IF ~Broadcasts(_pred, _truth)
      THEN [ok |-> FALSE, error |-> "ValueError"]
      ELSE [ok |-> TRUE,
            value |-> Div(Int2Rat(2 * logical_and_sum(_pred, _truth)),
                          Add(NpSum(p), NpSum(truth)))]

dice_coefficient(p, truth) ==
  LET _pred  == p.data
      _truth == truth.data
  IN  IF ~Broadcasts(_pred, _truth)
      THEN [ok |-> FALSE, error |-> "ValueError"]
      ELSE [ok |-> TRUE,
            value |-> Div(Add(Int2Rat(2 * logical_and_sum(_pred, _truth)), smooth),
                          Add(Add(NpSum(p), NpSum(truth)), smooth))]

----------------------------------------------------------------------------
(* The state before evaluate is called: nothing fetched, scored or written. *)

NoPatient == [id |-> 0, seg |-> [shape |-> <<>>, data |-> <<>>]]
NoArray   == [shape |-> <<>>, data |-> <<>>]
NoArgs    == [fn |-> "none"]
NoResult  == [fn |-> "none"]
NoDice    == <<>>

PipeIdle ==
  /\ partitions = [train |-> <<>>, test |-> <<>>, validation |-> <<>>]
  /\ call = 0
  /\ name = ""
  /\ out_dir = <<>>
  /\ patient_ids = <<>>
  /\ idx = 0
  /\ patient = NoPatient
  /\ pred = NoArray
  /\ dice = NoDice
  /\ dice_coefficients = <<>>
  /\ tumor_range = <<>>
  /\ coronal_slices = <<>>
  /\ cache = {}
  /\ writes = <<>>
  /\ dirs = {}
  /\ log = <<>>
  /\ error = "none"
  /\ events = <<>>

----------------------------------------------------------------------------
(* dice_coefficient applied to two masks drawn from bounded sets.          *)

\* shapes of rank 1 and 2 holding at most n elements (axes of length 0 too)
ShapesUpTo(n) ==
  {<<a>> : a \in 0..n} \cup
  {s \in {<<a, b>> : a \in 0..n, b \in 0..n} : s[1] * s[2] <= n}

\* every array of shape s with elements drawn from V
ArraysOf(s, V) == {[shape |-> s, data |-> d] : d \in [1..Size(s) -> V]}

Binary == {Int2Rat(0), Int2Rat(1)}

DiceMasks == UNION {ArraysOf(s, Binary) : s \in ShapesUpTo(MaxLen)}

InitDice ==
  /\ pc = "dice"
  /\ PipeIdle
  /\ \E p \in DiceMasks, t \in DiceMasks :
        args = [fn |-> "dice_coefficient", pred |-> p, truth |-> t]
  /\ result = NoResult

ApplyDice ==
  /\ pc = "dice"
  /\ pc' = "dice_done"
  /\ result' = dice_coefficient(args.pred, args.truth)
  /\ UNCHANGED <<args, pipeVars>>

NextDice == ApplyDice

SpecDice == InitDice /\ [][NextDice]_vars

----------------------------------------------------------------------------
(* to_single_class applied once and then again to its own result.          *)

\* the halves from -1 to 2: below 0, inside (0, 1] and above 1
Halves == {Rat(n, 2) : n \in -2..4}

BinVolumes == UNION {ArraysOf(<<n>>, Halves) : n \in 0..MaxVox}

InitBin ==
  /\ pc = "bin"
  /\ PipeIdle
  /\ \E v \in BinVolumes, t \in Halves :
        args = [fn |-> "to_single_class", seg |-> v, threshold |-> t]
  /\ result = NoResult

Binarize ==
  /\ pc = "bin"
  /\ pc' = "bin_once"
  /\ result' = [once |-> to_single_class(args.seg, args.threshold)]
  /\ UNCHANGED <<args, pipeVars>>

BinarizeAgain ==
  /\ pc = "bin_once"
  /\ pc' = "bin_twice"
  /\ result' = [once  |-> result.once,
                twice |-> to_single_class(result.once, args.threshold)]
  /\ UNCHANGED <<args, pipeVars>>

NextBin == Binarize \/ BinarizeAgain

SpecBin == InitBin /\ [][NextBin]_vars

----------------------------------------------------------------------------
(* Inputs of the pipeline: the collaborators the source calls.             *)

\* the n identifiers lo, lo + 1, ... as a list
Block(lo, n) == [i \in 1..n |-> lo + i - 1]

\* get_all_partition_ids(): three disjoint ordered lists (train, test,
\* validation) of at most MaxPatients identifiers in all.  Identifiers are
\* opaque, so the lists are taken up to renaming: the identifiers are numbered
\* 1, 2, ... in the order evaluate meets them (test, validation, train).
PartitionLists ==
  {<<Block(n[1] + n[2] + 1, n[3]), Block(1, n[1]), Block(n[1] + 1, n[2])>> :
     n \in {m \in [1..3 -> 0..MaxPatients] : m[1] + m[2] + m[3] <= MaxPatients}}

\* shapes of the ground-truth volume a Patient may carry: 3 or 4 axes
SegShapes ==
  {s \in [1..3 -> 1..MaxVoxels] \cup [1..4 -> 1..MaxVoxels] : Size(s) <= MaxVoxels}

\* the ground-truth volumes of the dataset: every voxel is tumor (1) or not (0)
SegVolumes == UNION {ArraysOf(s, Binary) : s \in SegShapes}

\* values the model may put out for a voxel
Probs == {Rat(0, 1), Rat(1, 2), Rat(1, 1)}

\* run_model(...): an array shaped like the cropped ground truth behind a batch
\* axis, or an array of one or of two values behind a batch axis
ModelOutputs(seg) ==
  ArraysOf(expand_dims(_crop(seg)).shape, Probs) \cup
  ArraysOf(<<1, 1>>, Probs) \cup ArraysOf(<<1, 2>>, Probs)

----------------------------------------------------------------------------
(* get_tumor_range (lines 57-70).                                          *)

\* axis whose length bounds the loop: patient.seg.shape[3]
RangeAxis == 3
\* axis indexed to test a slice and to weigh it: patient.seg[:, :, i]
SliceAxis == 2
\* axis indexed to render a slice: [:, coronal_index, :]
RenderAxis == 1

get_tumor_range(p) ==
  IF Len(p.seg.shape) <= RangeAxis
  THEN [ok |-> FALSE, error |-> "IndexError"]
  ELSE IF \E i \in 0..(p.seg.shape[RangeAxis + 1] - 1) : ~CanIndex(p.seg, SliceAxis, i)
  THEN [ok |-> FALSE, error |-> "IndexError"]
  ELSE [ok |-> TRUE,
        value |-> Ascending({i \in 0..(p.seg.shape[RangeAxis + 1] - 1) :
                               NpSum(IndexAxis(p.seg, SliceAxis, i)) # Int2Rat(0)})]

----------------------------------------------------------------------------
(* random.choices and sorted (line 113).                                   *)

\* default of the parameter num_images
num_images == 5

\* every list random.choices(population, weights, k) may return: k draws with
\* replacement among the members of positive weight
Choices(population, weights, k) ==
  [1..k -> {population[j] : j \in {i \in 1..Len(population) : Less(Int2Rat(0), weights[i])}}]

RECURSIVE Insert(_, _)
Insert(x, s) ==
  IF s = <<>> THEN <<x>>
  ELSE IF x <= Head(s) THEN <<x>> \o s
  ELSE <<Head(s)>> \o Insert(x, Tail(s))

RECURSIVE sorted(_)
sorted(s) == IF s = <<>> THEN <<>> ELSE Insert(Head(s), sorted(Tail(s)))

----------------------------------------------------------------------------
(* log_metrics helpers (lines 120-123).                                    *)

\* np.mean of a list: nan (and a warning) when the list is empty
NpMean(s) == IF s = <<>> THEN NaN ELSE Div(SumSeq(s), Int2Rat(Len(s)))

\* np.std of a list, as the variance under the root: nan when empty
NpStd(s) ==
  IF s = <<>> THEN [sqrt |-> NaN]
  ELSE LET m == NpMean(s)
           d == [i \in 1..Len(s) |-> Mul(Sub(s[i], m), Sub(s[i], m))]
       IN  [sqrt |-> Div(SumSeq(d), Int2Rat(Len(s)))]

RECURSIVE Least(_)
Least(s) ==
  IF Len(s) = 1 THEN s[1]
  ELSE LET r == Least(Tail(s)) IN IF Less(r, s[1]) THEN r ELSE s[1]

RECURSIVE Greatest(_)
Greatest(s) ==
  IF Len(s) = 1 THEN s[1]
  ELSE LET r == Greatest(Tail(s)) IN IF Less(s[1], r) THEN r ELSE s[1]

\* np.min, np.max of a list: ValueError when the list is empty
NpMin(s) ==
  IF s = <<>> THEN [ok |-> FALSE, error |-> "ValueError"]
  ELSE [ok |-> TRUE, value |-> Least(s)]

NpMax(s) ==
  IF s = <<>> THEN [ok |-> FALSE, error |-> "ValueError"]
  ELSE [ok |-> TRUE, value |-> Greatest(s)]

----------------------------------------------------------------------------
(* The evaluation run.                                                     *)

OutputDir == "output_dir"

\* the default of the parameter name of make_histograms_and_images
DefaultName == "unnamed"

\* the partition evaluate hands to its c-th call
PartitionOf(c) == IF c = 1 THEN "test" ELSE IF c = 2 THEN "validation" ELSE "train"

\* an exception nobody catches ends the run
Raise(e) == pc' = "aborted" /\ error' = e

Init ==
  /\ pc = "start"
  /\ PipeIdle
  /\ args = NoArgs
  /\ result = NoResult

\* evaluate, line 171: the three lists are read
evaluate ==
  /\ pc = "start"
  /\ \E t \in PartitionLists :
       partitions' = [train |-> t[1], test |-> t[2], validation |-> t[3]]
  /\ call' = 1
  /\ pc' = "call"
  /\ UNCHANGED <<name, out_dir, patient_ids, idx, patient, pred, dice,
                 dice_coefficients, tumor_range, coronal_slices, cache, writes,
                 dirs, log, error, events, args, result>>

\* evaluate's next call of make_histograms_and_images (lines 173-180) up to
\* the head of its loop (lines 134-150); no call passes name
make_histograms_and_images ==
  /\ pc = "call"
  /\ log' = Append(log, <<"Evaluating", PartitionOf(call)>>)
  /\ patient_ids' = partitions[PartitionOf(call)]
  /\ name' = DefaultName
  /\ out_dir' = <<OutputDir, DefaultName>>
  /\ dirs' = dirs \cup {<<OutputDir, DefaultName>>}
  /\ cache' = {}
  /\ dice_coefficients' = <<>>
  /\ idx' = 1
  /\ pc' = "loop"
  /\ UNCHANGED <<partitions, call, patient, pred, dice, tumor_range,
                 coronal_slices, writes, error, events, args, result>>

\* line 152: the dataset loads the next patient of the list
fetch_patient ==
  /\ pc = "loop"
  /\ idx <= Len(patient_ids)
  /\ \E v \in SegVolumes : patient' = [id |-> patient_ids[idx], seg |-> v]
  /\ cache' = cache \cup {patient_ids[idx]}
  /\ events' = Append(events, <<"fetch", call, patient_ids[idx]>>)
  /\ pc' = "fetched"
  /\ UNCHANGED <<partitions, call, name, out_dir, patient_ids, idx, pred, dice,
                 dice_coefficients, tumor_range, coronal_slices, writes, dirs,
                 log, error, args, result>>

\* lines 154-159: prediction, ground truth, score, log line, append
score_patient ==
  /\ pc = "fetched"
  /\ \E out \in ModelOutputs(patient.seg) :
       LET pred_seg == to_single_class(out, Rat(1, 2))
           truth    == to_single_class(_crop(patient.seg), Rat(1, 2))
           d        == dice_coefficient(pred_seg, truth)
       IN  /\ pred' = pred_seg
           /\ IF d.ok
              THEN /\ dice' = d.value
                   /\ log' = Append(log, <<"Patient", patient.id, d.value>>)
                   /\ dice_coefficients' = Append(dice_coefficients, d.value)
                   /\ pc' = "scored"
                   /\ error' = error
              ELSE /\ Raise(d.error)
                   /\ UNCHANGED <<dice, log, dice_coefficients>>
  /\ UNCHANGED <<partitions, call, name, out_dir, patient_ids, idx, patient,
                 tumor_range, coronal_slices, cache, writes, dirs, events,
                 args, result>>

\* make_image, lines 74-75: the slice must be on the rendered axis (flair has
\* the shape of seg); the plotting of lines 77-98 is the renderer's and is
\* taken to succeed
CanRender(p, coronal_index) == CanIndex(p.seg, RenderAxis, coronal_index)

\* make_image, lines 100-101: the file one render saves
out_file(output_dir, p, coronal_index, c) ==
  [path |-> output_dir \o <<p.id, coronal_index>>, call |-> c]

\* the slices of a list that are rendered: all of them up to the first that
\* is not on the rendered axis
Rendered(p, slices) ==
  LET bad == {k \in 1..Len(slices) : ~CanRender(p, slices[k])}
      n   == IF bad = {} THEN Len(slices)
             ELSE (CHOOSE k \in bad : \A j \in bad : k <= j) - 1
  IN  SubSeq(slices, 1, n)

\* line 160: make_images (lines 104-116) with every make_image it calls
make_images ==
  /\ pc = "scored"
  /\ LET tr == get_tumor_range(patient)
     IN  IF ~tr.ok
         THEN /\ Raise(tr.error)
              /\ UNCHANGED <<tumor_range, coronal_slices, writes>>
         ELSE LET weights == [k \in 1..Len(tr.value) |->
                                NpSum(IndexAxis(patient.seg, SliceAxis, tr.value[k]))]
              IN  /\ tumor_range' = tr.value
                  /\ IF tr.value = <<>>
                     THEN \* random.choices reads cum_weights[-1] of an empty list
                          /\ Raise("IndexError")
                          /\ UNCHANGED <<coronal_slices, writes>>
                     ELSE \E drawn \in Choices(tr.value, weights, num_images) :
                            LET done == Rendered(patient, sorted(drawn))
                            IN  /\ coronal_slices' = sorted(drawn)
                                /\ writes' = writes \o
                                     [k \in 1..Len(done) |->
                                        out_file(out_dir, patient, done[k], call)]
                                /\ IF Len(done) = num_images
                                   THEN pc' = "imaged" /\ error' = error
                                   ELSE Raise("IndexError")
  /\ UNCHANGED <<partitions, call, name, out_dir, patient_ids, idx, patient,
                 pred, dice, dice_coefficients, cache, dirs, log, events,
                 args, result>>

\* the loop goes on without the cache being dropped
drop_cache_skipped ==
  /\ pc = "imaged"
  /\ idx' = idx + 1
  /\ patient' = NoPatient
  /\ pred' = NoArray
  /\ dice' = NoDice
  /\ tumor_range' = <<>>
  /\ coronal_slices' = <<>>
  /\ pc' = "loop"
  /\ UNCHANGED <<partitions, call, name, out_dir, patient_ids,
                 dice_coefficients, cache, writes, dirs, log, error, events,
                 args, result>>

\* line 161, the end of one turn of the loop: the record is released
drop_cache ==
  /\ pc = "imaged"
  /\ cache' = {}
  /\ events' = Append(events, <<"drop", call, patient.id>>)
  /\ idx' = idx + 1
  /\ patient' = NoPatient
  /\ pred' = NoArray
  /\ dice' = NoDice
  /\ tumor_range' = <<>>
  /\ coronal_slices' = <<>>
  /\ pc' = "loop"
  /\ UNCHANGED <<partitions, call, name, out_dir, patient_ids,
                 dice_coefficients, writes, dirs, log, error, args, result>>

\* where evaluate goes on after a call has returned
Return == IF call = 3 THEN pc' = "done" /\ call' = call
          ELSE pc' = "call" /\ call' = call + 1

\* the five lines log_metrics writes
Summary(nm, mean, std, min, max) ==
  <<<<"evaluation complete", nm>>, <<"mean dice", mean>>, <<"std dice", std>>,
    <<"min dice", min>>, <<"max dice", max>>>>

\* each statistic logged as soon as it is computed
log_metrics_eager ==
  /\ pc = "loop"
  /\ idx > Len(patient_ids)
  /\ LET mean_dice == NpMean(dice_coefficients)
         std_dice  == NpStd(dice_coefficients)
         min_dice  == NpMin(dice_coefficients)
         max_dice  == NpMax(dice_coefficients)
     IN  IF ~min_dice.ok
         THEN /\ log' = log \o <<<<"mean dice", mean_dice>>, <<"std dice", std_dice>>>>
              /\ Raise(min_dice.error)
              /\ call' = call
         ELSE /\ log' = log \o Summary(name, mean_dice, std_dice,
                                       min_dice.value, max_dice.value)
              /\ Return
              /\ error' = error
  /\ UNCHANGED <<partitions, name, out_dir, patient_ids, idx, patient, pred,
                 dice, dice_coefficients, tumor_range, coronal_slices, cache,
                 writes, dirs, events, args, result>>

\* line 163 after the loop: log_metrics (lines 119-129), then the return
log_metrics ==
  /\ pc = "loop"
  /\ idx > Len(patient_ids)
  /\ LET mean_dice == NpMean(dice_coefficients)
         std_dice  == NpStd(dice_coefficients)
         min_dice  == NpMin(dice_coefficients)
         max_dice  == NpMax(dice_coefficients)
     IN  IF ~min_dice.ok
         THEN /\ Raise(min_dice.error)
              /\ UNCHANGED <<log, call>>
         ELSE IF ~max_dice.ok
         THEN /\ Raise(max_dice.error)
              /\ UNCHANGED <<log, call>>
         ELSE /\ log' = log \o Summary(name, mean_dice, std_dice,
                                       min_dice.value, max_dice.value)
              /\ Return
              /\ error' = error
  /\ UNCHANGED <<partitions, name, out_dir, patient_ids, idx, patient, pred,
                 dice, dice_coefficients, tumor_range, coronal_slices, cache,
                 writes, dirs, events, args, result>>

Next ==
  \/ evaluate
  \/ make_histograms_and_images
  \/ fetch_patient
  \/ score_patient
  \/ make_images
  \/ drop_cache
  \/ log_metrics

Spec == Init /\ [][Next]_vars

----------------------------------------------------------------------------
(* Properties of the evaluation run, checked under Spec.                   *)

StrictlyAscending(q) == \A i \in 1..(Len(q) - 1) : q[i] < q[i + 1]
Elements(q) == {q[i] : i \in 1..Len(q)}

\* a patient has been scored and its slices have been selected
Sampled == pc \in {"imaged", "aborted"} /\ coronal_slices # <<>>

\* the ground truth of the patient in hand has no slice with tumor
EmptyExtent ==
  /\ patient.id # 0
  /\ get_tumor_range(patient).ok
  /\ get_tumor_range(patient).value = <<>>

\* C1: the slices selected for a patient are strictly ascending (none twice),
\* all belong to the extent, and there are exactly min(k, len(extent)) of them.
C1_SampleStrictSubset ==
  Sampled =>
    /\ StrictlyAscending(coronal_slices)
    /\ Elements(coronal_slices) \subseteq Elements(tumor_range)
    /\ Len(coronal_slices) = Min(num_images, Len(tumor_range))

\* C2: no two renders of one run write the same file: every path is written
\* at most once.
C2_NoPathWrittenTwice ==
  \A i, j \in 1..Len(writes) : i # j => writes[i].path # writes[j].path

\* C3: a patient whose ground truth has no tumor slice does not make the run
\* fail: once it is scored, the run is never aborted with it in hand.
C3_EmptyExtentNoFailure ==
  (EmptyExtent /\ dice # NoDice) => pc # "aborted"

\* C7: every image rendered for a patient of partition P lies in the
\* directory <output_dir>/<name of P>.
C7_PartitionDirectory ==
  \A k \in 1..Len(writes) :
     /\ writes[k].path[1] = OutputDir
     /\ writes[k].path[2] = PartitionOf(writes[k].call)

\* C8: when the loop of a partition ends with an empty score list, the summary
\* raises ValueError and no line is added to the log.
C8_EmptySummaryRaises ==
  [][(pc = "loop" /\ idx > Len(patient_ids) /\ dice_coefficients = <<>>)
       => (pc' = "aborted" /\ error' = "ValueError" /\ log' = log)]_vars

\* a run stopped by the summary of a partition without patients
C8_Witness ==
  /\ pc = "aborted"
  /\ error = "ValueError"
  /\ call >= 1
  /\ patient_ids = <<>>
  /\ dice_coefficients = <<>>
  /\ log[Len(log)] = <<"Evaluating", PartitionOf(call)>>

\* C9: every selected slice index is a valid index on the rendered axis and
\* the slice rendered at it is the slice that was tested and weighed; the
\* extent itself is found without running off the tested axis.
C9_SameAxis ==
  /\ (patient.id # 0 /\ dice # NoDice /\ pc \in {"imaged", "aborted"})
       => get_tumor_range(patient).ok
  /\ Sampled =>
       \A k \in 1..Len(coronal_slices) :
          /\ CanRender(patient, coronal_slices[k])
          /\ IndexAxis(patient.seg, RenderAxis, coronal_slices[k])
               = IndexAxis(patient.seg, SliceAxis, coronal_slices[k])

IsPatientLine(l) == l[1] = "Patient"
OfThisCall(e) == e[2] = call

\* C10: patients are handled in list order, one record at a time: fetches and
\* cache drops alternate, each drop releasing the patient just fetched, the
\* j-th fetch of a partition is the j-th identifier of its list, and at the
\* head of the loop there is one score per patient handled, in list order.
C10_OneRecordInOrder ==
  /\ Cardinality(cache) <= 1
  /\ \A i \in 1..Len(events) :
        /\ events[i][1] = (IF i % 2 = 1 THEN "fetch" ELSE "drop")
        /\ i % 2 = 0 => (events[i][2] = events[i - 1][2] /\ events[i][3] = events[i - 1][3])
  /\ pc \in {"loop", "fetched", "scored", "imaged"} =>
        LET ce == SelectSeq(events, OfThisCall)
        IN  \A i \in 1..Len(ce) : ce[i][3] = patient_ids[(i + 1) \div 2]
  /\ pc = "loop" =>
        LET ce == SelectSeq(events, OfThisCall)
            pl == SelectSeq(log, IsPatientLine)
            n  == idx - 1
        IN  /\ Len(ce) = 2 * n
            /\ Len(dice_coefficients) = n
            /\ Len(pl) >= n
            /\ \A j \in 1..n :
                  pl[Len(pl) - n + j] = <<"Patient", patient_ids[j], dice_coefficients[j]>>

\* the loop of a partition of two patients has ended
C10_Witness ==
  /\ pc = "loop"
  /\ Len(patient_ids) = 2
  /\ idx = 3
  /\ Len(dice_coefficients) = 2
  /\ cache = {}

----------------------------------------------------------------------------
(* Properties of dice_coefficient, checked under SpecDice.                 *)

Positives(a) == Cardinality({i \in 1..Len(a.data) : a.data[i] # Int2Rat(0)})
Disjoint(a, b) ==
  \A i \in 1..Len(a.data) : a.data[i] = Int2Rat(0) \/ b.data[i] = Int2Rat(0)

\* C4: masks of different shape are never scored: the call fails.
C4_ShapeMismatchFails ==
  (pc = "dice_done" /\ args.pred.shape # args.truth.shape) => ~result.ok

\* C4 amended: the call fails with ValueError when the two masks differ in
\* their number of elements and neither holds exactly one element, and it
\* returns a score when they hold the same number of elements, whatever
\* their shapes.
C4_ElementCountMismatchFails ==
  pc = "dice_done" =>
    LET np == Size(args.pred.shape)
        nt == Size(args.truth.shape)
    IN  /\ (np # nt /\ np # 1 /\ nt # 1) => (~result.ok /\ result.error = "ValueError")
        /\ np = nt => result.ok

\* a pair of different shapes and as many elements, scored
C4_Witness ==
  /\ pc = "dice_done"
  /\ args.pred.shape = <<1, 2>>
  /\ args.truth.shape = <<2>>
  /\ result.ok

\* C6: for binary masks of equal shape the score is a number above 0 and at
\* most 1 (the divisor is never zero); it is 1 when the masks are equal and
\* smooth / (|pred| + |truth| + smooth), with smooth = 1/50, when they share
\* no positive voxel.
C6_DiceRange ==
  (pc = "dice_done" /\ args.pred.shape = args.truth.shape) =>
    /\ result.ok
    /\ IsFinite(result.value)
    /\ Less(Int2Rat(0), result.value)
    /\ Geq(Int2Rat(1), result.value)
    /\ args.pred = args.truth => result.value = Int2Rat(1)
    /\ Disjoint(args.pred, args.truth) =>
         result.value = <<1, 50 * (Positives(args.pred) + Positives(args.truth)) + 1>>

\* two all-zero masks of two voxels, scored 1
C6_Witness ==
  /\ pc = "dice_done"
  /\ args.pred = [shape |-> <<2>>, data |-> <<Int2Rat(0), Int2Rat(0)>>]
  /\ args.truth = args.pred
  /\ result.ok
  /\ result.value = Int2Rat(1)

----------------------------------------------------------------------------
(* Properties of to_single_class, checked under SpecBin.                   *)

\* C5: binarizing a binarized volume at the same threshold changes nothing,
\* whatever the threshold.
C5_Idempotent ==
  pc = "bin_twice" => result.twice = result.once

\* C5 amended: binarizing a binarized volume at the same threshold changes
\* nothing when the threshold lies in (0, 1].
C5_IdempotentInUnitRange ==
  (/\ pc = "bin_twice"
   /\ Less(Int2Rat(0), args.threshold)
   /\ Geq(Int2Rat(1), args.threshold))
    => result.twice = result.once

\* a volume with a value on each side of the threshold 1, binarized twice
C5_Witness ==
  /\ pc = "bin_twice"
  /\ args.threshold = Int2Rat(1)
  /\ args.seg.data = <<Rat(1, 2), Int2Rat(2)>>
  /\ result.twice.data = <<Int2Rat(0), Int2Rat(1)>>

====
